---- MODULE Spec2Model ----
(***************************************************************************)
(* Model of train.py: ShallowNeuralNetwork (Adam update, train() with      *)
(* early stopping and best-weight checkpointing, save/load) and the model  *)
(* selection loop that keeps the best-by-validation and best-by-training   *)
(* registries.                                                             *)
(*                                                                         *)
(* Numbers.  The Adam moments are float64 values, computed as IEEE 754     *)
(* computes them: every multiplication, addition, subtraction and division *)
(* is the exact result rounded to 53 bits, ties to even (mantissas are     *)
(* digit sequences because TLC integers are 32 bit; overflow, underflow    *)
(* and the sign of zero are left out).  The increment                      *)
(* lr * m_hat / (sqrt(v_hat) + epsilon) is not computed: a parameter array *)
(* is kept as its initial contents followed by the sequence of increments  *)
(* subtracted from it, each increment recorded by the moments and the step *)
(* counter that determine it; an increment whose m is zero is zero and     *)
(* leaves the array as it was.  Every array stands for one representative  *)
(* element: all of update_weights is element-wise.                         *)
(*                                                                         *)
(* forward/backward (tanh network, analytic gradients) and the mean        *)
(* squared errors are inputs of the model: each batch draws the four       *)
(* gradients, each epoch draws the training and validation loss.           *)
(***************************************************************************)
EXTENDS Integers, Sequences, FiniteSets, TLC

VARIABLES
    caller,     \* who drives the class: "script" (lines 225-260), "api" (one train() call), "persist" (save/load)
    cfg,        \* the arguments of train(): epochs, batch_size, patience, num_samples (X.shape[1])
    nets,       \* the ShallowNeuralNetwork objects constructed so far; the last one is nn
    heap,       \* the array objects (device and host); a parameter attribute holds an index into it
    pc,         \* position in train() / the script
    tr,         \* the local variables of train()
    main,       \* the module-level variables of the script (registries, results, log)
    files,      \* the .npz files on disk
    dW,         \* dW1, db1, dW2, db2 of the last backward() (lines 60-64)
    exc         \* the exception raised by the last operation, "none" if it returned

vars == <<caller, cfg, nets, heap, pc, tr, main, files, dW, exc>>

(***************************************************************************)
(* Bounds of the model.                                                    *)
(***************************************************************************)
MaxEpochs   == 4   \* largest epoch budget the api caller passes to train()
MaxPatience == 3   \* largest patience the api caller passes to train()
MaxSamples  == 4   \* largest X.shape[1]
Epochs      == 2   \* Config.EPOCHS, scaled down
Rounds      == 2   \* Config.ROUNDS, scaled down
MaxHidden   == 3   \* largest hidden_size of a network built by the persist caller
MaxNets     == 2   \* networks built by the persist caller
MaxUpdates  == 1   \* update_weights calls made by the persist caller on one network
MaxLoads    == 1   \* load calls made by the persist caller

(***************************************************************************)
(* Program constants.                                                      *)
(***************************************************************************)
MinRange   == 2      \* Config.MIN_RANGE
MaxRange   == 2      \* Config.MAX_RANGE
InputSize  == 2      \* input_size=2
OutputSize == 1      \* output_size=1
Inf        == 1000000  \* float('inf'): above every finite loss of the model

TensorNames == <<"W1", "b1", "W2", "b2">>
Tensors     == {TensorNames[k] : k \in 1..4}

(***************************************************************************)
(* Arbitrary-size naturals: little-endian digits of DigitBits bits, no     *)
(* leading zero digit, zero is <<>>.                                       *)
(***************************************************************************)
DigitBits == 15

Base == 2^DigitBits

RECURSIVE BTrim(_)
BTrim(a) == IF a = <<>> THEN <<>>
            ELSE IF a[Len(a)] = 0 THEN BTrim(SubSeq(a, 1, Len(a) - 1)) ELSE a

RECURSIVE BFromNat(_)
BFromNat(n) == IF n = 0 THEN <<>> ELSE <<n % Base>> \o BFromNat(n \div Base)

RECURSIVE BAddC(_, _, _)
BAddC(a, b, c) ==
    IF a = <<>> /\ b = <<>> THEN (IF c = 0 THEN <<>> ELSE <<c>>)
    ELSE LET x0 == IF a = <<>> THEN 0 ELSE Head(a)
             y0 == IF b = <<>> THEN 0 ELSE Head(b)
             s  == x0 + y0 + c
         IN  <<s % Base>> \o BAddC(IF a = <<>> THEN <<>> ELSE Tail(a),
                                   IF b = <<>> THEN <<>> ELSE Tail(b), s \div Base)

BAdd(a, b) == BAddC(a, b, 0)

RECURSIVE BSubC(_, _, _)
BSubC(a, b, c) ==
    IF a = <<>> THEN <<>>
    ELSE LET y0 == IF b = <<>> THEN 0 ELSE Head(b)
             d  == Head(a) - y0 - c
         IN  <<IF d < 0 THEN d + Base ELSE d>>
             \o BSubC(Tail(a), IF b = <<>> THEN <<>> ELSE Tail(b), IF d < 0 THEN 1 ELSE 0)

\* a - b for a >= b
BSub(a, b) == BTrim(BSubC(a, b, 0))

RECURSIVE BLess(_, _)
BLess(a, b) ==
    IF Len(a) # Len(b) THEN Len(a) < Len(b)
    ELSE IF a = <<>> THEN FALSE
    ELSE IF a[Len(a)] # b[Len(b)] THEN a[Len(a)] < b[Len(b)]
    ELSE BLess(SubSeq(a, 1, Len(a) - 1), SubSeq(b, 1, Len(b) - 1))

RECURSIVE BMulC(_, _, _)
BMulC(a, k, c) ==
    IF a = <<>> THEN BFromNat(c)
    ELSE LET p == Head(a) * k + c IN <<p % Base>> \o BMulC(Tail(a), k, p \div Base)

\* a * k for a digit k
BMulSmall(a, k) == IF k = 0 THEN <<>> ELSE BMulC(a, k, 0)

RECURSIVE BMul(_, _)
BMul(a, b) ==
    IF a = <<>> \/ b = <<>> THEN <<>>
    ELSE BAdd(BMulSmall(a, Head(b)),
              LET r == BMul(a, Tail(b)) IN IF r = <<>> THEN <<>> ELSE <<0>> \o r)

RECURSIVE BPowN(_, _)
BPowN(a, n) == IF n = 0 THEN <<1>> ELSE BMul(BPowN(a, n - 1), a)

\* the number of binary digits of a
BitLen(a) ==
    IF a = <<>> THEN 0
    ELSE DigitBits * (Len(a) - 1)
         + (CHOOSE k \in 1..DigitBits : 2^(k - 1) <= a[Len(a)] /\ a[Len(a)] < 2^k)

Zeros(n) == [i \in 1..n |-> 0]

\* 2 ^ s
BPow2(s) == Zeros(s \div DigitBits) \o <<2^(s % DigitBits)>>

\* a * 2 ^ s
BShiftL(a, s) ==
    IF a = <<>> THEN <<>> ELSE Zeros(s \div DigitBits) \o BMulSmall(a, 2^(s % DigitBits))

\* floor(a / 2 ^ s)
BShiftR(a, s) ==
    LET d  == s \div DigitBits
        b  == s % DigitBits
        a1 == IF d >= Len(a) THEN <<>> ELSE SubSeq(a, d + 1, Len(a))
    IN  BTrim([i \in 1..Len(a1) |->
                 (a1[i] \div 2^b)
                 + (IF i < Len(a1) THEN (a1[i + 1] % 2^b) * 2^(DigitBits - b) ELSE 0)])

\* a mod 2 ^ s
BLow(a, s) ==
    LET d == s \div DigitBits
        b == s % DigitBits
    IN  IF d >= Len(a) THEN a ELSE BTrim(SubSeq(a, 1, d) \o <<a[d + 1] % 2^b>>)

\* one digit of a quotient: floor(r / b) for r < b * Base, b with its top digit >= Base / 2;
\* the top two digits of r over the top digit of b give it to within 2
QDigit(r, b) ==
    LET n    == Len(b)
        top2 == (IF Len(r) > n THEN r[n + 1] * Base ELSE 0) + (IF Len(r) >= n THEN r[n] ELSE 0)
        est  == top2 \div b[n]
        qhat == IF est > Base - 1 THEN Base - 1 ELSE est
    IN  CHOOSE k \in (IF qhat < 2 THEN 0 ELSE qhat - 2)..qhat :
            /\ ~BLess(r, BMulSmall(b, k))
            /\ BLess(r, BMulSmall(b, k + 1))

\* quotient and remainder of a by b, b with its top digit >= Base / 2: long division,
\* from the top digit of a down
RECURSIVE BDivLong(_, _)
BDivLong(a, b) ==
    IF a = <<>> THEN [q |-> <<>>, r |-> <<>>]
    ELSE LET hi == BDivLong(Tail(a), b)
             r  == BTrim(<<Head(a)>> \o hi.r)
             k  == QDigit(r, b)
         IN  [q |-> BTrim(<<k>> \o hi.q), r |-> BSub(r, BMulSmall(b, k))]

\* quotient and remainder of a by b # 0
BDivMod(a, b) ==
    LET s  == DigitBits * Len(b) - BitLen(b)
        qr == BDivLong(BShiftL(a, s), BShiftL(b, s))
    IN  [q |-> qr.q, r |-> BShiftR(qr.r, s)]

(***************************************************************************)
(* float64: zero, or (-1)^neg * man * 2^exp with 2^52 <= man < 2^53.       *)
(***************************************************************************)
Precision == 53

F64Zero == [neg |-> FALSE, man |-> <<>>, exp |-> 0]

IsZero(x) == x.man = <<>>

\* the double nearest to (-1)^neg * N * 2^e, ties to even
Round(neg, N, e) ==
    LET L == BitLen(N)
    IN  IF N = <<>> THEN F64Zero
        ELSE IF L <= Precision
        THEN [neg |-> neg, man |-> BShiftL(N, Precision - L), exp |-> e - (Precision - L)]
        ELSE LET s    == L - Precision
                 q    == BShiftR(N, s)
                 r    == BLow(N, s)
                 half == BPow2(s - 1)
                 up   == BLess(half, r) \/ (r = half /\ q[1] % 2 = 1)
                 q2   == IF up THEN BAdd(q, <<1>>) ELSE q
             IN  IF BitLen(q2) > Precision
                 THEN [neg |-> neg, man |-> BPow2(Precision - 1), exp |-> e + s + 1]
                 ELSE [neg |-> neg, man |-> q2, exp |-> e + s]

F64Int(i) == Round(i < 0, BFromNat(IF i < 0 THEN -i ELSE i), 0)

F64Neg(x) == IF IsZero(x) THEN x ELSE [x EXCEPT !.neg = ~@]

F64Mul(x, y) ==
    IF IsZero(x) \/ IsZero(y) THEN F64Zero
    ELSE Round(x.neg # y.neg, BMul(x.man, y.man), x.exp + y.exp)

F64Add(x, y) ==
    IF IsZero(x) THEN y
    ELSE IF IsZero(y) THEN x
    ELSE LET hi == IF x.exp < y.exp THEN y ELSE x
             lo == IF x.exp < y.exp THEN x ELSE y
             d  == hi.exp - lo.exp
         IN  IF d > Precision + 2 THEN hi
             ELSE LET A == BShiftL(hi.man, d)
                      B == lo.man
                  IN  IF hi.neg = lo.neg THEN Round(hi.neg, BAdd(A, B), lo.exp)
                      ELSE IF A = B THEN F64Zero
                      ELSE IF BLess(A, B) THEN Round(lo.neg, BSub(B, A), lo.exp)
                      ELSE Round(hi.neg, BSub(A, B), lo.exp)

F64Sub(x, y) == F64Add(x, F64Neg(y))

\* x / y for y # 0: the quotient to Precision + 3 bits and a sticky bit, rounded
F64Div(x, y) ==
    IF IsZero(x) THEN F64Zero
    ELSE LET qr == BDivMod(BShiftL(x.man, Precision + 3), y.man)
             N  == BAdd(BShiftL(qr.q, 1), IF qr.r = <<>> THEN <<>> ELSE <<1>>)
         IN  Round(x.neg # y.neg, N, x.exp - y.exp - (Precision + 3) - 1)

F64Pow(b, t) == Round(b.neg /\ t % 2 = 1, BPowN(b.man, t), b.exp * t)

(***************************************************************************)
(* ShallowNeuralNetwork.__init__                                           *)
(***************************************************************************)
Beta1Num == 9       \* self.beta1 = 0.9
Beta1Den == 10
Beta2Num == 999     \* self.beta2 = 0.999
Beta2Den == 1000

\* the doubles the literals 0.9 and 0.999 denote: the nearest to 9/10 and to 999/1000
Beta1 == F64Div(F64Int(Beta1Num), F64Int(Beta1Den))

Beta2 == F64Div(F64Int(Beta2Num), F64Int(Beta2Den))

\* the shape of each parameter, initialize_weights
ShapeOf(hidden_size, k) ==
    CASE k = "W1" -> <<hidden_size, InputSize>>
      [] k = "b1" -> <<hidden_size, 1>>
      [] k = "W2" -> <<OutputSize, hidden_size>>
      [] k = "b2" -> <<OutputSize, 1>>

\* A fresh array: randn * 0.01 is a draw of its own for each network and
\* parameter, named by the pair; zeros is <<0, "zeros">>.
InitialArray(id, hidden_size, k) ==
    [shape |-> ShapeOf(hidden_size, k),
     init  |-> IF k \in {"W1", "W2"} THEN <<id, k>> ELSE <<0, "zeros">>,
     steps |-> <<>>]

Slot(k) == CHOOSE j \in 1..4 : TensorNames[j] = k

\* cp.zeros_like of the four parameters (lines 41-44)
ZeroMoments == [k \in Tensors |-> F64Zero]

\* initialize_adam_parameters on network n: the eight moments are zero again,
\* t and the parameters stay
initialize_adam_parameters(n) == [n EXCEPT !.m = ZeroMoments, !.v = ZeroMoments]

\* the object built by ShallowNeuralNetwork(input_size=2, hidden_size, output_size=1)
\* when the heap holds n arrays: its parameters are the next four arrays
NewNetwork(hidden_size, n) ==
    [input_size  |-> InputSize,
     hidden_size |-> hidden_size,
     output_size |-> OutputSize,
     beta1       |-> Beta1,
     beta2       |-> Beta2,
     t           |-> 0,
     W           |-> [k \in Tensors |-> n + Slot(k)],
     m           |-> ZeroMoments,
     v           |-> ZeroMoments]

NewArrays(id, hidden_size) == [j \in 1..4 |-> InitialArray(id, hidden_size, TensorNames[j])]

nn == nets[Len(nets)]

\* the contents of the four parameters of network n
Params(n, h) == [k \in Tensors |-> h[n.W[k]]]

(***************************************************************************)
(* update_weights (lines 67-84)                                            *)
(***************************************************************************)
\* a counter that advances once per tensor instead of once per call
StepCounterPerTensor(t) == t + 4

\* self.t += 1
StepCounter(t) == t + 1

\* a moving average that leaves out the weight (1 - beta) of the new value
EmaUnweighted(beta, m, x) == F64Add(F64Mul(beta, m), x)

\* beta * m + (1 - beta) * x
Ema(beta, m, x) == F64Add(F64Mul(beta, m), F64Mul(F64Sub(F64Int(1), beta), x))

\* adam_update(m, v, grad, beta1, beta2, epsilon, t): the new moments and the
\* quotient m_hat / (sqrt(v_hat) + epsilon), recorded by what determines it:
\* the new moments and the t of the bias correction
adam_update(m, v, grad, beta1, beta2, t) ==
    LET m2 == Ema(beta1, m, grad)
        v2 == Ema(beta2, v, F64Mul(grad, grad))
    IN  [m |-> m2, v |-> v2, quot |-> [m |-> m2, v |-> v2, t |-> t]]

\* m_hat = m / (1 - cp.power(beta1, t)) and v_hat = v / (1 - cp.power(beta2, t)), t >= 1;
\* the power is taken correctly rounded (for t = 1 it is beta itself)
MHat(quot) == F64Div(quot.m, F64Sub(F64Int(1), F64Pow(Beta1, quot.t)))

VHat(quot) == F64Div(quot.v, F64Sub(F64Int(1), F64Pow(Beta2, quot.t)))

\* array -= learning_rate * quot, in place; a zero m makes m_hat and the quotient zero
ISub(array, quot) ==
    IF IsZero(quot.m) THEN array ELSE [array EXCEPT !.steps = Append(@, quot)]

AdamAll(n, grads) ==
    [k \in Tensors |-> adam_update(n.m[k], n.v[k], F64Int(grads[k]), n.beta1, n.beta2,
                                    StepCounter(n.t))]

\* the network object after update_weights(dW1, db1, dW2, db2)
UpdatedNet(n, grads) ==
    LET u == AdamAll(n, grads)
    IN  [n EXCEPT !.t = StepCounter(n.t),
                  !.m = [k \in Tensors |-> u[k].m],
                  !.v = [k \in Tensors |-> u[k].v]]

\* the heap after update_weights: the arrays the parameters refer to are changed in place
UpdatedHeap(h, n, grads) ==
    LET u == AdamAll(n, grads)
    IN  [j \in DOMAIN h |->
            IF \E k \in Tensors : n.W[k] = j
            THEN ISub(h[j], u[CHOOSE k \in Tensors : n.W[k] = j].quot)
            ELSE h[j]]

(***************************************************************************)
(* Inputs                                                                  *)
(***************************************************************************)
\* the gradients backward() hands to update_weights for one batch: a positive
\* one whose bias correction rounds in float64 (11), a negative one, a zero one
\* and a positive one whose bias correction is exact (2)
GradInputs ==
    {[k \in Tensors |-> CASE k = "W1" -> 11 [] k = "b1" -> -2 [] k = "W2" -> 0 [] k = "b2" -> 2]}

\* batch_size; with it X.shape[1] = 3 leaves a shorter last batch
BatchSizes == {2}

\* mean_squared_error over the training set
LossInputs == IF caller = "script" THEN {0, 1} ELSE {0}

\* mean_squared_error over the validation set; the dataset of the script keeps it finite
ValLossInputs == IF caller = "script" THEN {0, 1} ELSE {0, 1, Inf}

(***************************************************************************)
(* train (lines 86-127)                                                    *)
(***************************************************************************)
NoTrain ==
    [losses |-> <<>>, val_losses |-> <<>>, best_val_loss |-> Inf, best_weights |-> <<>>,
     epochs_no_improve |-> 0, stopped_epoch |-> 0, parameters_history |-> <<>>,
     epoch |-> 0, i |-> 0, state |-> "IDLE"]

\* array.copy() / array.get() of the four parameters when the heap holds `base`
\* arrays: references to four new arrays
CopyRefs(W, base) == [k \in Tensors |-> base + Slot(k)]

\* (self.W1.get(), self.b1.get(), self.W2.get(), self.b2.get()), line 112
HistoryRefs(W, base) == CopyRefs(W, base)

\* a checkpoint that keeps the live arrays themselves: (self.W1, self.b1, self.W2, self.b2)
LiveRefs(W, base) == W

\* (self.W1.copy(), self.b1.copy(), self.W2.copy(), self.b2.copy()), line 115
CheckpointRefs(W, base) == CopyRefs(W, base)

\* the four new arrays themselves
Copies(W, h) == [j \in 1..4 |-> h[W[TensorNames[j]]]]

\* a comparison that takes a tie for an improvement
ValImprovesOrTies(val_loss, best) == val_loss <= best

\* val_loss < best_val_loss, line 114
ValImproves(val_loss, best) == val_loss < best

\* a counter that an improvement does not reset
NoImproveKept(count, improved) == count + 1

\* the no-improvement counter after an epoch, lines 116-118
NoImprove(count, improved) == IF improved THEN 0 ELSE count + 1

\* epochs_no_improve >= patience, line 120
ShouldStop(count, patience) == count >= patience

\* the one-based number of the epoch
StoppedAtOneBased(epoch) == epoch + 1

\* stopped_epoch = epoch, line 121
StoppedAt(epoch) == epoch

\* a return without the restore of lines 124-125
RestoredNever(n, frame) == n

\* a restore that falls back on the first snapshot when there is no checkpoint
RestoredOrFirst(n, frame) ==
    IF frame.best_weights # <<>> THEN [n EXCEPT !.W = frame.best_weights[1]]
    ELSE IF frame.parameters_history # <<>> THEN [n EXCEPT !.W = frame.parameters_history[1]]
    ELSE n

\* lines 124-125
Restored(n, frame) ==
    IF frame.best_weights # <<>> THEN [n EXCEPT !.W = frame.best_weights[1]] ELSE n

\* nn = ShallowNeuralNetwork(...)
Construct ==
    /\ pc = "round"
    /\ caller \in {"script", "api"}
    /\ \E hs \in (IF caller = "script" THEN {main.hidden_size} ELSE MinRange..MaxRange) :
          /\ nets' = Append(nets, NewNetwork(hs, Len(heap)))
          /\ heap' = heap \o NewArrays(Len(nets) + 1, hs)
    /\ pc' = "constructed"
    /\ UNCHANGED <<caller, cfg, tr, main, files, dW, exc>>

\* lines 87-95: the locals of train(), and the first test of the epoch loop
TrainCall ==
    /\ pc = "constructed"
    /\ tr' = [NoTrain EXCEPT !.state = IF cfg.epochs = 0 THEN "EXHAUSTED" ELSE "RUNNING"]
    /\ pc' = IF cfg.epochs = 0 THEN "restore" ELSE "batch"
    /\ UNCHANGED <<caller, cfg, nets, heap, main, files, dW, exc>>

\* lines 96-101: forward and backward on one batch
Batch ==
    /\ pc = "batch"
    /\ \E grads \in GradInputs :
          /\ dW' = grads
          /\ nets' = [nets EXCEPT ![Len(nets)] = UpdatedNet(nn, grads)]
          /\ heap' = UpdatedHeap(heap, nn, grads)
    /\ tr' = [tr EXCEPT !.i = @ + cfg.batch_size]
    /\ pc' = IF tr.i + cfg.batch_size < cfg.num_samples THEN "batch" ELSE "epoch_end"
    /\ UNCHANGED <<caller, cfg, main, files, exc>>

\* lines 103-122: the losses, the snapshot, the checkpoint, the stopping test
EpochEnd ==
    /\ pc = "epoch_end"
    /\ \E loss \in LossInputs, val_loss \in ValLossInputs :
        LET improved == ValImproves(val_loss, tr.best_val_loss)
            h1       == heap \o Copies(nn.W, heap)
            h2       == IF improved THEN h1 \o Copies(nn.W, h1) ELSE h1
            count    == NoImprove(tr.epochs_no_improve, improved)
            stop     == ShouldStop(count, cfg.patience)
            more     == tr.epoch + 1 < cfg.epochs
        IN  /\ heap' = h2
            /\ tr' = [tr EXCEPT
                        !.losses = Append(@, loss),
                        !.val_losses = Append(@, val_loss),
                        !.parameters_history = Append(@, HistoryRefs(nn.W, Len(heap))),
                        !.best_val_loss = IF improved THEN val_loss ELSE @,
                        !.best_weights = IF improved THEN <<CheckpointRefs(nn.W, Len(h1))>> ELSE @,
                        !.epochs_no_improve = count,
                        !.stopped_epoch = IF stop THEN StoppedAt(tr.epoch) ELSE @,
                        !.epoch = IF ~stop /\ more THEN @ + 1 ELSE @,
                        !.i = 0,
                        !.state = IF stop THEN "EARLY_STOPPED"
                                  ELSE IF more THEN "RUNNING" ELSE "EXHAUSTED"]
            /\ pc' = IF ~stop /\ more THEN "batch" ELSE "restore"
    /\ UNCHANGED <<caller, cfg, nets, main, files, dW, exc>>

\* lines 124-127
Restore ==
    /\ pc = "restore"
    /\ nets' = [nets EXCEPT ![Len(nets)] = Restored(nn, tr)]
    /\ pc' = "returned"
    /\ UNCHANGED <<caller, cfg, heap, tr, main, files, dW, exc>>

(***************************************************************************)
(* One call of train() on a fresh network, any arguments.                  *)
(***************************************************************************)
NoMain ==
    [hidden_size |-> 0, round |-> 0, losses |-> <<>>, results |-> <<>>, log |-> <<>>,
     best_val_loss |-> Inf, best_val_model |-> 0, best_val_hidden_size |-> 0,
     best_val_loss_history |-> <<>>, best_parameters_history |-> <<>>,
     best_train_loss |-> Inf, best_train_model |-> 0, best_train_hidden_size |-> 0,
     best_train_loss_history |-> <<>>]

NoGrads == [k \in Tensors |-> 0]

NoExc == [op |-> "none", raised |-> "none"]

FileNames == {"best_val_model.npz", "best_train_model.npz", "model.npz"}

\* a file is absent (<<>>) or holds one archive: field name |-> array
NoFiles == [f \in FileNames |-> <<>>]

InitTrain ==
    /\ caller = "api"
    /\ cfg \in [epochs : 0..MaxEpochs, patience : 1..MaxPatience,
                num_samples : 1..MaxSamples, batch_size : BatchSizes]
    /\ nets = <<>>
    /\ heap = <<>>
    /\ pc = "round"
    /\ tr = NoTrain
    /\ main = NoMain
    /\ files = NoFiles
    /\ dW = NoGrads
    /\ exc = NoExc

NextTrain == Construct \/ TrainCall \/ Batch \/ EpochEnd \/ Restore

SpecTrain == InitTrain /\ [][NextTrain]_vars

(***************************************************************************)
(* save and load (lines 132-146)                                           *)
(***************************************************************************)
\* np.savez(file_path, W1=self.W1.get(), b1=..., W2=..., b2=...)
SaveFile(n, h) == [k \in Tensors |-> h[n.W[k]]]

\* how many of data['W1'], data['b1'], data['W2'], data['b2'] are read, in this
\* order, before a field is missing
RECURSIVE FieldsRead(_, _)
FieldsRead(data, j) ==
    IF j > 4 \/ TensorNames[j] \notin DOMAIN data THEN j - 1 ELSE FieldsRead(data, j + 1)

\* the network after load(): the fields read are bound to new arrays, the rest left
Loaded(n, data, base) ==
    [n EXCEPT !.W = [k \in Tensors |->
                        IF Slot(k) <= FieldsRead(data, 1) THEN base + Slot(k) ELSE n.W[k]]]

\* cp.array(data[k]) for the fields read
LoadedArrays(data) == [j \in 1..FieldsRead(data, 1) |-> data[TensorNames[j]]]

\* what load() raises
LoadRaises(file) ==
    IF file = <<>> THEN "FileNotFoundError"
    ELSE IF FieldsRead(file[1], 1) < 4 THEN "KeyError"
    ELSE "none"

(***************************************************************************)
(* The model selection loop (lines 225-260)                                *)
(***************************************************************************)
\* min(list) as Python computes it
RECURSIVE PyMinFrom(_, _)
PyMinFrom(best, s) ==
    IF s = <<>> THEN best
    ELSE PyMinFrom(IF Head(s) < best THEN Head(s) ELSE best, Tail(s))

PyMin(s) == PyMinFrom(Head(s), Tail(s))

\* a comparison that lets a tie replace the registry entry
RegistryImprovesOrTies(loss, best) == loss <= best

\* min(val_losses) < best_val_loss, min(loss_history) < best_train_loss (lines 247, 254)
RegistryImproves(loss, best) == loss < best

\* lines 242-245
LogLine(epoch, loss_history, val_losses) ==
    [msg   |-> IF epoch = 0 THEN "training completed" ELSE "early stopped at epoch",
     epoch |-> IF epoch = 0 THEN 0 ELSE epoch + 1,
     train |-> PyMin(loss_history),
     val   |-> PyMin(val_losses)]

\* lines 238-260 after train() has returned, and the step of the two loops
AfterTrain ==
    /\ pc = "returned"
    /\ caller = "script"
    /\ IF tr.val_losses = <<>>
       THEN /\ exc' = [op |-> "min", raised |-> "ValueError"]
            /\ pc' = "crashed"
            /\ UNCHANGED <<main, files>>
       ELSE LET id        == Len(nets)
                val_min   == PyMin(tr.val_losses)
                train_min == PyMin(tr.losses)
                val_up    == RegistryImproves(val_min, main.best_val_loss)
                train_up  == RegistryImproves(train_min, main.best_train_loss)
                last      == main.round + 1 >= Rounds
                losses2   == Append(main.losses, val_min)
            IN  /\ main' = [main EXCEPT
                      !.losses = IF last THEN <<>> ELSE losses2,
                      !.results = IF last THEN Append(@, losses2) ELSE @,
                      !.log = Append(@, LogLine(tr.stopped_epoch, tr.losses, tr.val_losses)),
                      !.best_val_loss = IF val_up THEN val_min ELSE @,
                      !.best_val_model = IF val_up THEN id ELSE @,
                      !.best_val_hidden_size = IF val_up THEN main.hidden_size ELSE @,
                      !.best_val_loss_history = IF val_up THEN tr.val_losses ELSE @,
                      !.best_parameters_history = IF val_up THEN tr.parameters_history ELSE @,
                      !.best_train_loss = IF train_up THEN train_min ELSE @,
                      !.best_train_model = IF train_up THEN id ELSE @,
                      !.best_train_hidden_size = IF train_up THEN main.hidden_size ELSE @,
                      !.best_train_loss_history = IF train_up THEN tr.losses ELSE @,
                      !.round = IF last THEN 0 ELSE @ + 1,
                      !.hidden_size = IF last THEN @ + 1 ELSE @]
                /\ files' = [files EXCEPT
                      !["best_val_model.npz"] = IF val_up THEN <<SaveFile(nn, heap)>> ELSE @,
                      !["best_train_model.npz"] = IF train_up THEN <<SaveFile(nn, heap)>> ELSE @]
                /\ pc' = IF last /\ main.hidden_size + 1 > MaxRange THEN "done" ELSE "round"
                /\ exc' = exc
    /\ UNCHANGED <<caller, cfg, nets, heap, tr, dW>>

\* Config (lines 148-157), scaled down: PATIENCE = int(EPOCHS * 0.5)
Init ==
    /\ caller = "script"
    /\ \E b \in BatchSizes :
          cfg = [epochs |-> Epochs, patience |-> Epochs \div 2,
                 num_samples |-> MaxSamples, batch_size |-> b]
    /\ nets = <<>>
    /\ heap = <<>>
    /\ pc = "round"
    /\ tr = NoTrain
    /\ main = [NoMain EXCEPT !.hidden_size = MinRange]
    /\ files = NoFiles
    /\ dW = NoGrads
    /\ exc = NoExc

Next == Construct \/ TrainCall \/ Batch \/ EpochEnd \/ Restore \/ AfterTrain

Spec == Init /\ [][Next]_vars

(***************************************************************************)
(* A caller that builds networks, updates, saves and loads them.           *)
(***************************************************************************)
PersistNew ==
    /\ Len(nets) < MaxNets
    /\ Len(heap) = 4 * Len(nets)
    /\ \E hs \in MinRange..MaxHidden :
          /\ nets' = Append(nets, NewNetwork(hs, Len(heap)))
          /\ heap' = heap \o NewArrays(Len(nets) + 1, hs)
    /\ exc' = [op |-> "init", raised |-> "none"]
    /\ UNCHANGED <<caller, cfg, pc, tr, main, files, dW>>

PersistUpdate ==
    /\ nets # <<>>
    /\ Len(heap) = 4 * Len(nets)
    /\ nn.t < MaxUpdates
    /\ \E grads \in GradInputs :
          /\ dW' = grads
          /\ nets' = [nets EXCEPT ![Len(nets)] = UpdatedNet(nn, grads)]
          /\ heap' = UpdatedHeap(heap, nn, grads)
    /\ exc' = [op |-> "update_weights", raised |-> "none"]
    /\ UNCHANGED <<caller, cfg, pc, tr, main, files>>

\* nn.initialize_adam_parameters(), called by the caller on a network in use
PersistInitAdam ==
    /\ nets # <<>>
    /\ nets' = [nets EXCEPT ![Len(nets)] = initialize_adam_parameters(nn)]
    /\ exc' = [op |-> "initialize_adam_parameters", raised |-> "none"]
    /\ UNCHANGED <<caller, cfg, heap, pc, tr, main, files, dW>>

PersistSave ==
    /\ \E id \in 1..Len(nets) :
          files' = [files EXCEPT !["model.npz"] = <<SaveFile(nets[id], heap)>>]
    /\ exc' = [op |-> "save", raised |-> "none"]
    /\ UNCHANGED <<caller, cfg, nets, heap, pc, tr, main, dW>>

\* an archive written by someone else: one that lacks a field
PersistForeign ==
    /\ files["model.npz"] # <<>>
    /\ \E k \in DOMAIN files["model.npz"][1] :
          files' = [files EXCEPT !["model.npz"] =
                       <<[f \in DOMAIN files["model.npz"][1] \ {k} |-> files["model.npz"][1][f]]>>]
    /\ exc' = [op |-> "foreign", raised |-> "none"]
    /\ UNCHANGED <<caller, cfg, nets, heap, pc, tr, main, dW>>

\* nn.load('model.npz')
PersistLoad ==
    /\ nets # <<>>
    /\ Len(heap) - 4 * Len(nets) <= 4 * (MaxLoads - 1)
    /\ LET file == files["model.npz"]
       IN  /\ exc' = [op |-> "load", raised |-> LoadRaises(file)]
           /\ IF file = <<>>
              THEN UNCHANGED <<nets, heap>>
              ELSE /\ nets' = [nets EXCEPT ![Len(nets)] = Loaded(nn, file[1], Len(heap))]
                   /\ heap' = heap \o LoadedArrays(file[1])
    /\ UNCHANGED <<caller, cfg, pc, tr, main, files, dW>>

InitPersist ==
    /\ caller = "persist"
    /\ cfg = [epochs |-> 0, patience |-> 0, num_samples |-> 0, batch_size |-> 0]
    /\ nets = <<>>
    /\ heap = <<>>
    /\ pc = "idle"
    /\ tr = NoTrain
    /\ main = NoMain
    /\ files = NoFiles
    /\ dW = NoGrads
    /\ exc = NoExc

NextPersist ==
    PersistNew \/ PersistUpdate \/ PersistInitAdam \/ PersistSave \/ PersistForeign \/ PersistLoad

SpecPersist == InitPersist /\ [][NextPersist]_vars

(***************************************************************************)
(* Definitions the properties use.                                         *)
(***************************************************************************)
\* the contents of the four arrays a tuple of references names
ValuesIn(h, refs) == [k \in Tensors |-> h[refs[k]]]

Values(refs) == ValuesIn(heap, refs)

Live == Params(nn, heap)

\* the parameters nn was constructed with
Initial == [k \in Tensors |-> InitialArray(Len(nets), nn.hidden_size, k)]

Last(s) == s[Len(s)]

\* the lowest value of s, +infinity for the empty sequence
Lowest(s) ==
    LET S == {s[j] : j \in DOMAIN s} \cup {Inf}
    IN  CHOOSE x \in S : \A y \in S : x <= y

\* the earliest position of the lowest value of a non-empty s
ArgMinFirst(s) ==
    CHOOSE j \in DOMAIN s : /\ \A e \in DOMAIN s : s[j] <= s[e]
                            /\ \A e \in 1..(j - 1) : s[e] > s[j]

\* the last position of s whose value is strictly below everything before it
\* (and below +infinity), 0 if there is none
LastImproving(s) ==
    LET I == {j \in DOMAIN s : s[j] < Lowest(SubSeq(s, 1, j - 1))}
    IN  IF I = {} THEN 0 ELSE CHOOSE j \in I : \A e \in I : e <= j

\* ceil(N / B)
Ceil(N, B) == CHOOSE q \in 0..N : q * B >= N /\ (q - 1) * B < N

InTrain == pc \in {"batch", "epoch_end", "restore", "returned"}

EpochRecorded == Len(tr'.val_losses) = Len(tr.val_losses) + 1

(***************************************************************************)
(* C1.  When train() returns and some epoch's validation loss was below    *)
(* +infinity (a checkpoint exists), the live parameters W1, b1, W2, b2     *)
(* equal the parameters as snapshotted at the earliest epoch with the      *)
(* lowest validation loss of the run.                                      *)
(***************************************************************************)
C1_RestoredBest ==
    (pc = "returned" /\ Lowest(tr.val_losses) < Inf)
        => Live = Values(tr.parameters_history[ArgMinFirst(tr.val_losses)])

\* the best epoch is not the last one and the last epoch's parameters differ
C1_Witness ==
    /\ pc = "returned"
    /\ Lowest(tr.val_losses) < Inf
    /\ ArgMinFirst(tr.val_losses) < Len(tr.val_losses)
    /\ Live # Values(Last(tr.parameters_history))
    /\ \E j \in DOMAIN tr.val_losses :
          j > ArgMinFirst(tr.val_losses) /\ tr.val_losses[j] = Lowest(tr.val_losses)

\* what an epoch does to the no-improvement counter
C2_CounterStep ==
    EpochRecorded =>
        tr'.epochs_no_improve =
            IF Last(tr'.val_losses) < Lowest(tr.val_losses) THEN 0
            ELSE tr.epochs_no_improve + 1

\* where the counter and the epoch count stand while train() runs
C2_CounterBound ==
    InTrain =>
        /\ tr.epochs_no_improve <= cfg.patience
        /\ Len(tr.val_losses) <= cfg.epochs
        /\ tr.epochs_no_improve = cfg.patience => pc \in {"restore", "returned"}
        /\ (/\ pc = "returned"
            /\ LastImproving(tr.val_losses) >= 1
            /\ (LastImproving(tr.val_losses) - 1) + cfg.patience <= cfg.epochs - 1)
           => /\ Len(tr.val_losses) = LastImproving(tr.val_losses) + cfg.patience
              /\ nn.t = Len(tr.val_losses) * Ceil(cfg.num_samples, cfg.batch_size)

(***************************************************************************)
(* C2.  The no-improvement counter is 0 after an epoch whose validation    *)
(* loss is strictly below the run's best so far and one more otherwise;    *)
(* it never exceeds the patience P, the run leaves the epoch loop as soon  *)
(* as it equals P, never more than E epochs run, and when the last         *)
(* strictly improving epoch has index k with k + P <= E - 1 exactly the    *)
(* epochs 0..k+P have run (and only their batches) when train() returns.   *)
(***************************************************************************)
C2_EarlyStopping == [][C2_CounterStep]_vars /\ []C2_CounterBound

\* a run stopped before its budget, P epochs after its last improvement
C2_Witness ==
    /\ pc = "returned"
    /\ LastImproving(tr.val_losses) >= 1
    /\ Len(tr.val_losses) = LastImproving(tr.val_losses) + cfg.patience
    /\ Len(tr.val_losses) < cfg.epochs

(***************************************************************************)
(* C4.  As claimed: when train() returns and no checkpoint was ever saved, *)
(* the live parameters equal the parameters the network was constructed    *)
(* with.                                                                   *)
(***************************************************************************)
C4_LeftInitial ==
    (pc = "returned" /\ tr.best_weights = <<>>) => Live = Initial

(***************************************************************************)
(* C4 as amended.  When train() returns and no checkpoint was ever saved,  *)
(* the live parameters are the arrays the network was constructed with,    *)
(* holding what the updates of the epochs that ran made of them: they      *)
(* equal the snapshot of the last epoch, and the initial parameters when   *)
(* no epoch ran (E = 0).                                                   *)
(***************************************************************************)
C4_LeftAsUpdated ==
    (pc = "returned" /\ tr.best_weights = <<>>) =>
        /\ nn.W = NewNetwork(nn.hidden_size, 0).W
        /\ Lowest(tr.val_losses) = Inf
        /\ IF tr.parameters_history = <<>> THEN cfg.epochs = 0 /\ Live = Initial
           ELSE Live = Values(Last(tr.parameters_history))

\* every validation loss was +infinity and the updates moved the parameters
C4_Witness ==
    /\ pc = "returned"
    /\ tr.best_weights = <<>>
    /\ Len(tr.val_losses) >= 2
    /\ Live # Initial

\* the counter, the moments and the increments at each position of train()
C5_CounterState ==
    /\ pc = "constructed" =>
          nn.t = 0 /\ \A k \in Tensors : IsZero(nn.m[k]) /\ IsZero(nn.v[k])
    /\ InTrain =>
          /\ nn.t = Len(tr.val_losses) * Ceil(cfg.num_samples, cfg.batch_size)
                    + (IF pc = "batch" THEN Ceil(tr.i, cfg.batch_size)
                       ELSE IF pc = "epoch_end" THEN Ceil(cfg.num_samples, cfg.batch_size)
                       ELSE 0)
    /\ pc \in {"batch", "epoch_end", "restore"} =>
          \A k \in Tensors :
             \A j \in DOMAIN heap[nn.W[k]].steps :
                /\ heap[nn.W[k]].steps[j].t <= nn.t
                /\ j > 1 => heap[nn.W[k]].steps[j - 1].t < heap[nn.W[k]].steps[j].t

\* what one step does to the counter, the moments and the increments
C5_CounterStep ==
    Len(nets') = Len(nets) /\ nets # <<>> =>
        /\ nn'.t = IF pc = "batch" THEN nn.t + 1 ELSE nn.t
        /\ pc = "batch" =>
              \A k \in Tensors :
                 heap'[nn.W[k]].steps # heap[nn.W[k]].steps =>
                    heap'[nn.W[k]].steps =
                       Append(heap[nn.W[k]].steps,
                              [m |-> nn'.m[k], v |-> nn'.v[k], t |-> nn'.t])
        /\ pc # "batch" => nn'.m = nn.m /\ nn'.v = nn.v

(***************************************************************************)
(* C5.  The step counter t is 0 at construction, grows by exactly one per  *)
(* update_weights call and never otherwise changes; every increment of a   *)
(* parameter was bias-corrected with the t of its update, the same for the *)
(* four parameters; when train() returns on a fresh network after n        *)
(* epochs, t = n * ceil(N / B); restoring the checkpoint changes neither   *)
(* t nor a moment.                                                         *)
(***************************************************************************)
C5_SharedCounter == []C5_CounterState /\ [][C5_CounterStep]_vars

\* two full epochs of two batches, and the restore put back an earlier checkpoint
C5_Witness ==
    /\ pc = "returned"
    /\ nn.t = 4
    /\ Len(tr.val_losses) = 2
    /\ tr.best_weights # <<>>
    /\ Live # Values(Last(tr.parameters_history))

\* the moments and the counter that determine the increment of parameter k
QuotOf(k) == [m |-> nn.m[k], v |-> nn.v[k], t |-> nn.t]

(***************************************************************************)
(* C6.  As claimed: after exactly one update on a freshly constructed      *)
(* network, for each parameter with gradient G, m_hat equals G and v_hat   *)
(* equals the square of G.                                                 *)
(***************************************************************************)
C6_ExactIdentity ==
    (InTrain /\ nn.t = 1) =>
        \A k \in Tensors :
            /\ MHat(QuotOf(k)) = F64Int(dW[k])
            /\ VHat(QuotOf(k)) = F64Mul(F64Int(dW[k]), F64Int(dW[k]))

\* the doubles next to x # 0: one unit in the last place away from zero, and towards it
Up(x) ==
    IF x.man = BSub(BPow2(Precision), <<1>>)
    THEN [x EXCEPT !.man = BPow2(Precision - 1), !.exp = @ + 1]
    ELSE [x EXCEPT !.man = BAdd(@, <<1>>)]

Down(x) ==
    IF x.man = BPow2(Precision - 1)
    THEN [x EXCEPT !.man = BSub(BPow2(Precision), <<1>>), !.exp = @ - 1]
    ELSE [x EXCEPT !.man = BSub(@, <<1>>)]

\* y is x or a double next to x
Near(x, y) == IF IsZero(x) THEN y = x ELSE y \in {x, Up(x), Down(x)}

(***************************************************************************)
(* C6 as amended.  After exactly one update on a freshly constructed       *)
(* network, for each parameter with gradient G: m_hat is G and v_hat is    *)
(* the square of G up to the rounding of the multiplication by 1 - beta    *)
(* and of the division by 1 - beta^1, that is, each is the value itself or *)
(* a double next to it (exactly zero when G = 0); the parameter has moved  *)
(* by the one increment those two determine, or not at all when G = 0.     *)
(***************************************************************************)
C6_FirstStepBiasCorrection ==
    (InTrain /\ nn.t = 1) =>
        \A k \in Tensors :
            /\ Near(F64Int(dW[k]), MHat(QuotOf(k)))
            /\ Near(F64Mul(F64Int(dW[k]), F64Int(dW[k])), VHat(QuotOf(k)))
            /\ heap[nn.W[k]].steps = IF dW[k] = 0 THEN <<>> ELSE <<QuotOf(k)>>

\* one update: m_hat of W1 is a double next to its gradient, m_hat of b1 is its
\* gradient, and W2, whose gradient is zero, has not moved
C6_Witness ==
    /\ InTrain
    /\ nn.t = 1
    /\ dW["W1"] > 0 /\ dW["b1"] < 0 /\ dW["W2"] = 0
    /\ MHat(QuotOf("W1")) # F64Int(dW["W1"])
    /\ MHat(QuotOf("b1")) = F64Int(dW["b1"])
    /\ heap[nn.W["W1"]].steps # <<>>
    /\ heap[nn.W["W2"]].steps = <<>>

(***************************************************************************)
(* C8.  As claimed: when train() returns (E >= 1), the number of epochs    *)
(* returned equals E exactly when the run was EXHAUSTED and is smaller     *)
(* than E exactly when it was EARLY_STOPPED.                               *)
(***************************************************************************)
C8_CountTellsApart ==
    (pc = "returned" /\ cfg.epochs >= 1) =>
        /\ Len(tr.losses) = cfg.epochs <=> tr.state = "EXHAUSTED"
        /\ Len(tr.losses) < cfg.epochs <=> tr.state = "EARLY_STOPPED"

(***************************************************************************)
(* C8 as amended.  When train() returns (E >= 1, P >= 1): fewer than E     *)
(* epochs are returned exactly when the counter reached P before the last  *)
(* epoch (EARLY_STOPPED, stopped-epoch = count - 1); an EXHAUSTED run      *)
(* returns E epochs and stopped-epoch 0; but E epochs are also returned    *)
(* when the counter reaches P at the last epoch E - 1 (EARLY_STOPPED,      *)
(* stopped-epoch E - 1), so a count of E does not tell the two apart.      *)
(***************************************************************************)
C8_CountAndStoppedEpoch ==
    (pc = "returned" /\ cfg.epochs >= 1) =>
        /\ Len(tr.losses) = Len(tr.val_losses)
        /\ Len(tr.losses) = Len(tr.parameters_history)
        /\ tr.state \in {"EXHAUSTED", "EARLY_STOPPED"}
        /\ Len(tr.losses) < cfg.epochs <=>
              (tr.state = "EARLY_STOPPED" /\ tr.stopped_epoch < cfg.epochs - 1)
        /\ tr.state = "EXHAUSTED" =>
              /\ Len(tr.losses) = cfg.epochs
              /\ tr.stopped_epoch = 0
              /\ tr.epochs_no_improve < cfg.patience
        /\ tr.state = "EARLY_STOPPED" =>
              /\ tr.stopped_epoch = Len(tr.losses) - 1
              /\ tr.epochs_no_improve = cfg.patience

\* the counter reached P at the last epoch of the budget
C8_Witness ==
    /\ pc = "returned"
    /\ cfg.epochs >= 2
    /\ tr.state = "EARLY_STOPPED"
    /\ Len(tr.losses) = cfg.epochs
    /\ Lowest(tr.val_losses) < Inf

\* the arrays the snapshots and the checkpoint refer to
SnapshotRefs ==
    {tr.parameters_history[j][k] : j \in DOMAIN tr.parameters_history, k \in Tensors}
    \cup (IF tr.best_weights = <<>> THEN {} ELSE {tr.best_weights[1][k] : k \in Tensors})

\* no step writes into a snapshot; a new snapshot holds the live contents
C9_SnapshotStep ==
    /\ \A r \in SnapshotRefs : heap'[r] = heap[r]
    /\ EpochRecorded =>
          /\ ValuesIn(heap', Last(tr'.parameters_history)) = Live
          /\ tr'.best_weights # tr.best_weights =>
                (tr'.best_weights # <<>> /\ ValuesIn(heap', tr'.best_weights[1]) = Live)

\* snapshots, checkpoint and live parameters are different arrays
C9_SnapshotsApart ==
    pc \in {"batch", "epoch_end", "restore"} =>
        /\ SnapshotRefs \cap {nn.W[k] : k \in Tensors} = {}
        /\ \A j \in DOMAIN tr.parameters_history :
              /\ {tr.parameters_history[j][k] : k \in Tensors} \cap
                 (IF tr.best_weights = <<>> THEN {} ELSE {tr.best_weights[1][k] : k \in Tensors}) = {}
              /\ \A e \in DOMAIN tr.parameters_history :
                    e # j => {tr.parameters_history[j][k] : k \in Tensors} \cap
                             {tr.parameters_history[e][k] : k \in Tensors} = {}

(***************************************************************************)
(* C9.  The checkpoint and every per-epoch snapshot are copies: when taken *)
(* they hold the live parameters of that moment in arrays of their own,    *)
(* and no later step of the run changes the contents of a snapshot taken.  *)
(***************************************************************************)
C9_SnapshotsIndependent == [][C9_SnapshotStep]_vars /\ []C9_SnapshotsApart

\* an update has moved the live parameters away from the checkpoint and from the snapshot
C9_Witness ==
    /\ pc = "epoch_end"
    /\ tr.best_weights # <<>>
    /\ Values(tr.best_weights[1]) # Live
    /\ Values(Last(tr.parameters_history)) # Live
    /\ Values(tr.best_weights[1]) = Values(tr.parameters_history[ArgMinFirst(tr.val_losses)])

\* a step that finishes a round
RoundLogged == Len(main'.log) = Len(main.log) + 1

\* the fields of the best-validation registry and its file
ValEntry(x, f) ==
    <<x.best_val_loss, x.best_val_hidden_size, x.best_val_loss_history, x.best_val_model,
      x.best_parameters_history, f["best_val_model.npz"]>>

\* the fields of the best-training registry and its file
TrainEntry(x, f) ==
    <<x.best_train_loss, x.best_train_hidden_size, x.best_train_loss_history,
      x.best_train_model, f["best_train_model.npz"]>>

\* what a round does to the two registries
C3_RegistryStep ==
    /\ RoundLogged =>
          /\ IF Lowest(tr.val_losses) < main.best_val_loss
             THEN ValEntry(main', files') =
                     <<Lowest(tr.val_losses), main.hidden_size, tr.val_losses, Len(nets),
                       tr.parameters_history, <<Live>> >>
             ELSE ValEntry(main', files') = ValEntry(main, files)
          /\ IF Lowest(tr.losses) < main.best_train_loss
             THEN TrainEntry(main', files') =
                     <<Lowest(tr.losses), main.hidden_size, tr.losses, Len(nets), <<Live>> >>
             ELSE TrainEntry(main', files') = TrainEntry(main, files)
    /\ ~RoundLogged =>
          ValEntry(main', files') = ValEntry(main, files)
          /\ TrainEntry(main', files') = TrainEntry(main, files)

\* what the two registries hold after the rounds logged so far
C3_RegistryState ==
    main.log # <<>> =>
        /\ main.best_val_loss = Lowest([j \in DOMAIN main.log |-> main.log[j].val])
        /\ main.best_val_model = ArgMinFirst([j \in DOMAIN main.log |-> main.log[j].val])
        /\ main.best_train_loss = Lowest([j \in DOMAIN main.log |-> main.log[j].train])
        /\ main.best_train_model = ArgMinFirst([j \in DOMAIN main.log |-> main.log[j].train])
        /\ main.best_val_hidden_size = nets[main.best_val_model].hidden_size
        /\ main.best_train_hidden_size = nets[main.best_train_model].hidden_size

(***************************************************************************)
(* C3.  A round replaces the best-validation registry entry (loss, hidden  *)
(* size, loss history, model, file) exactly when its minimum validation    *)
(* loss is strictly below the registry's loss, and the best-training entry *)
(* exactly when its minimum training loss is strictly below that           *)
(* registry's loss, each whatever the other does; a tie leaves the entry   *)
(* as it was; after every round each registry holds the earliest round     *)
(* with the lowest minimum loss of the rounds so far.                      *)
(***************************************************************************)
C3_StrictRegistries == [][C3_RegistryStep]_vars /\ []C3_RegistryState

\* the second round ties the first on validation loss and beats it on training loss
C3_Witness ==
    /\ pc = "done"
    /\ Len(main.log) >= 2
    /\ main.log[2].val = main.log[1].val
    /\ main.log[2].train < main.log[1].train
    /\ main.best_val_model = 1
    /\ main.best_train_model = 2

(***************************************************************************)
(* C10.  The file of the best-validation registry holds the parameters of  *)
(* the epoch that attained the registry's best validation loss; the file   *)
(* of the best-training registry holds, when a round has just replaced it, *)
(* the parameters of that round's earliest lowest-validation-loss epoch.   *)
(***************************************************************************)
C10_PersistedCheckpoint ==
    /\ files["best_val_model.npz"] # <<>> =>
          /\ main.best_val_loss_history[ArgMinFirst(main.best_val_loss_history)] = main.best_val_loss
          /\ files["best_val_model.npz"][1] =
                Values(main.best_parameters_history[ArgMinFirst(main.best_val_loss_history)])
    /\ (pc \in {"round", "done"} /\ nets # <<>> /\ main.best_train_model = Len(nets)) =>
          files["best_train_model.npz"] =
             <<Values(tr.parameters_history[ArgMinFirst(tr.val_losses)])>>
    /\ (pc \in {"round", "done"} /\ nets # <<>> /\ main.best_val_model = Len(nets)) =>
          files["best_val_model.npz"] =
             <<Values(tr.parameters_history[ArgMinFirst(tr.val_losses)])>>

\* the training-best file holds parameters of another epoch than the one with
\* the recorded best training loss, and not those of the last epoch
C10_Witness ==
    /\ pc = "done"
    /\ main.best_train_model = Len(nets)
    /\ ArgMinFirst(tr.losses) # ArgMinFirst(tr.val_losses)
    /\ files["best_train_model.npz"] # <<Values(tr.parameters_history[ArgMinFirst(tr.losses)])>>
    /\ files["best_val_model.npz"] # <<Values(Last(main.best_parameters_history))>>

\* the archive has the four fields, each of the shape network n declares
Fits(data, n) ==
    /\ DOMAIN data = Tensors
    /\ \A k \in Tensors : data[k].shape = ShapeOf(n.hidden_size, k)

\* what a load() of an existing file does
C7_LoadStep ==
    (exc'.op = "load" /\ files["model.npz"] # <<>>) =>
        IF Fits(files["model.npz"][1], nn)
        THEN exc'.raised = "none" /\ Params(nn', heap') = files["model.npz"][1]
        ELSE exc'.raised = "LoadError" /\ Params(nn', heap') = Params(nn, heap)

(***************************************************************************)
(* C7.  load() of an archive that has the four fields with the shapes of   *)
(* the network makes the parameters equal to the archive's; load() of an   *)
(* archive that lacks a field, or holds one of another shape, raises       *)
(* LoadError and leaves the parameters as they were.                       *)
(***************************************************************************)
C7_LoadContract == [][C7_LoadStep]_vars

====
